---------------------------- MODULE Spec2Model ----------------------------
(***************************************************************************)
(* Tool relevance scoring and selection (ToolScoring, remix-ai-core).       *)
(*                                                                         *)
(* Strings are sequences of one-character strings, so that includes,       *)
(* toLowerCase, substring and join are computed character by character.    *)
(* Numbers are fixed-point: the real number x is the integer x * One.      *)
(* One is chosen so that every quotient and product the code forms on the  *)
(* inputs enumerated below is an integer (ExactArithmetic states it)  , so   *)
(* the arithmetic is that of the reals; IEEE rounding is not modelled.     *)
(***************************************************************************)
EXTENDS Integers, Sequences, FiniteSets, TLC

(* ------------------------------ numbers -------------------------------- *)

\* 1.0 in fixed point: 60 serves the divisors 1..3 of tenths, 400 the products
One == 60 * 400

Tenths(n) == (n * One) \div 10

Hundredths(n) == (n * One) \div 100

\* a * b for two fixed-point numbers
Mul(a, b) == (a * b) \div One

\* a / n for a fixed-point number a and a count n
Div(a, n) == a \div n

MathMin(a, b) == IF a <= b THEN a ELSE b

MathMax(a, b) == IF a >= b THEN a ELSE b

\* Math.round(x) of a fixed-point x, as an integer
MathRound(x) == (2 * x + One) \div (2 * One)

(* ------------------------------ strings -------------------------------- *)

UpperCaseLetters == <<"A", "B", "C", "D", "E", "F", "G", "H", "I", "J", "K", "L", "M", "N", "O", "P", "Q", "R", "S", "T", "U", "V", "W", "X", "Y", "Z">>

LowerCaseLetters == <<"a", "b", "c", "d", "e", "f", "g", "h", "i", "j", "k", "l", "m", "n", "o", "p", "q", "r", "s", "t", "u", "v", "w", "x", "y", "z">>

toLowerCaseChar(c) ==
  IF \E i \in 1..26 : UpperCaseLetters[i] = c
  THEN LowerCaseLetters[CHOOSE i \in 1..26 : UpperCaseLetters[i] = c]
  ELSE c

\* the sequence f as an explicit tuple (TLC then stores its elements)
Tuple(f) == << >> \o f

\* String.prototype.toLowerCase
toLowerCase(s) == Tuple([i \in 1..Len(s) |-> toLowerCaseChar(s[i])])

\* String.prototype.includes
includes(text, pat) ==
  \E i \in 0..(Len(text) - Len(pat)) :
    \A j \in 1..Len(pat) : text[i + j] = pat[j]

\* String.prototype.substring(0, end)
substring(s, end) == SubSeq(s, 1, MathMin(MathMax(end, 0), Len(s)))

\* Array.prototype.join
join(parts, sep) ==
  LET upTo[k \in 0..Len(parts)] ==
        IF k = 0 THEN << >>
        ELSE IF k = 1 THEN parts[1]
        ELSE upTo[k - 1] \o sep \o parts[k]
  IN  upTo[Len(parts)]

\* an absent (undefined) optional value; a present value x is <<x>>
Undefined == <<>>

Some(x) == <<x>>

\* (s || '') for an optional string s
OrEmptyString(s) == IF s = Undefined THEN <<>> ELSE s[1]

\* (x || d) for an optional number x: undefined and 0 are falsy
OrNumber(x, d) == IF x = Undefined \/ x[1] = 0 THEN d ELSE x[1]

\* JSON.stringify of a flat schema object, given as a sequence of <<key, value>>
\* pairs of strings
JSONstringify(schema) ==
  <<"{">>
    \o join(Tuple([i \in 1..Len(schema) |->
                     <<"\"">> \o schema[i][1] \o <<"\"", ":", "\"">> \o schema[i][2] \o <<"\"">>]),
            <<",">>)
    \o <<"}">>

(* --------------------------- reference tables -------------------------- *)

defaultDomainWeights ==
  [d \in { <<"s", "o", "l", "i", "d", "i", "t", "y">>, <<"j", "a", "v", "a", "s", "c", "r", "i", "p", "t">>, <<"r", "e", "a", "c", "t">>, <<"w", "e", "b", "3">>, <<"t", "e", "s", "t", "i", "n", "g">>,
           <<"d", "e", "p", "l", "o", "y", "m", "e", "n", "t">>, <<"s", "e", "c", "u", "r", "i", "t", "y">>, <<"d", "e", "f", "i">>, <<"n", "f", "t">>, <<"c", "o", "m", "p", "i", "l", "a", "t", "i", "o", "n">>,
           <<"d", "e", "b", "u", "g", "g", "i", "n", "g">>, <<"f", "i", "l", "e">>, <<"t", "u", "t", "o", "r", "i", "a", "l">> } |->
     CASE d = <<"s", "o", "l", "i", "d", "i", "t", "y">> -> Tenths(10)
       [] d = <<"j", "a", "v", "a", "s", "c", "r", "i", "p", "t">> -> Tenths(8)
       [] d = <<"r", "e", "a", "c", "t">> -> Tenths(7)
       [] d = <<"w", "e", "b", "3">> -> Tenths(9)
       [] d = <<"t", "e", "s", "t", "i", "n", "g">> -> Tenths(6)
       [] d = <<"d", "e", "p", "l", "o", "y", "m", "e", "n", "t">> -> Tenths(7)
       [] d = <<"s", "e", "c", "u", "r", "i", "t", "y">> -> Tenths(10)
       [] d = <<"d", "e", "f", "i">> -> Tenths(8)
       [] d = <<"n", "f", "t">> -> Tenths(7)
       [] d = <<"c", "o", "m", "p", "i", "l", "a", "t", "i", "o", "n">> -> Tenths(9)
       [] d = <<"d", "e", "b", "u", "g", "g", "i", "n", "g">> -> Tenths(9)
       [] d = <<"f", "i", "l", "e">> -> Tenths(7)
       [] d = <<"t", "u", "t", "o", "r", "i", "a", "l">> -> Tenths(6)]

IntentTypes ==
  {"coding", "documentation", "debugging", "explanation", "generation", "completion"}

intentTypeToActions ==
  [t \in IntentTypes |->
     CASE t = "coding" ->
            << <<"c", "o", "m", "p", "i", "l", "e">>, <<"b", "u", "i", "l", "d">>, <<"c", "r", "e", "a", "t", "e">>, <<"w", "r", "i", "t", "e">>, <<"g", "e", "n", "e", "r", "a", "t", "e">>,
               <<"s", "c", "a", "f", "f", "o", "l", "d">> >>
       [] t = "documentation" ->
            << <<"r", "e", "a", "d">>, <<"l", "i", "s", "t">>, <<"g", "e", "t">>, <<"f", "e", "t", "c", "h">>, <<"s", "h", "o", "w">> >>
       [] t = "debugging" ->
            << <<"d", "e", "b", "u", "g">>, <<"t", "r", "a", "c", "e">>, <<"i", "n", "s", "p", "e", "c", "t">>, <<"b", "r", "e", "a", "k", "p", "o", "i", "n", "t">>, <<"s", "t", "e", "p">>,
               <<"w", "a", "t", "c", "h">> >>
       [] t = "explanation" ->
            << <<"r", "e", "a", "d">>, <<"g", "e", "t">>, <<"a", "n", "a", "l", "y", "z", "e">>, <<"s", "c", "a", "n">>, <<"e", "x", "p", "l", "a", "i", "n">> >>
       [] t = "generation" ->
            << <<"c", "r", "e", "a", "t", "e">>, <<"g", "e", "n", "e", "r", "a", "t", "e">>, <<"s", "c", "a", "f", "f", "o", "l", "d">>, <<"w", "r", "i", "t", "e">>, <<"b", "u", "i", "l", "d">> >>
       [] t = "completion" ->
            << <<"g", "e", "t">>, <<"r", "e", "a", "d">>, <<"l", "i", "s", "t">>, <<"f", "e", "t", "c", "h">>, <<"a", "u", "t", "o", "c", "o", "m", "p", "l", "e", "t", "e">> >>]

\* Object.entries(this.actionPatterns): the categories in insertion order
actionPatterns ==
  << << "file_operations",
        << <<"r", "e", "a", "d">>, <<"w", "r", "i", "t", "e">>, <<"c", "r", "e", "a", "t", "e">>, <<"d", "e", "l", "e", "t", "e">>, <<"m", "o", "v", "e">>, <<"c", "o", "p", "y">>,
           <<"l", "i", "s", "t">>, <<"e", "x", "i", "s", "t", "s">> >> >>,
     << "compilation",
        << <<"c", "o", "m", "p", "i", "l", "e">>, <<"b", "u", "i", "l", "d">>, <<"v", "e", "r", "i", "f", "y">>, <<"o", "p", "t", "i", "m", "i", "z", "e">> >> >>,
     << "deployment",
        << <<"d", "e", "p", "l", "o", "y">>, <<"s", "e", "n", "d">>, <<"c", "a", "l", "l">>, <<"e", "x", "e", "c", "u", "t", "e">>, <<"r", "u", "n">> >> >>,
     << "debugging",
        << <<"d", "e", "b", "u", "g">>, <<"b", "r", "e", "a", "k", "p", "o", "i", "n", "t">>, <<"s", "t", "e", "p">>, <<"w", "a", "t", "c", "h">>, <<"t", "r", "a", "c", "e">>,
           <<"e", "v", "a", "l", "u", "a", "t", "e">> >> >>,
     << "analysis",
        << <<"s", "c", "a", "n">>, <<"a", "n", "a", "l", "y", "z", "e">>, <<"c", "h", "e", "c", "k">>, <<"i", "n", "s", "p", "e", "c", "t">>, <<"v", "a", "l", "i", "d", "a", "t", "e">> >> >>,
     << "configuration",
        << <<"s", "e", "t">>, <<"g", "e", "t">>, <<"c", "o", "n", "f", "i", "g">>, <<"u", "p", "d", "a", "t", "e">> >> >>,
     << "tutorial",
        << <<"t", "u", "t", "o", "r", "i", "a", "l">>, <<"l", "e", "a", "r", "n">>, <<"g", "u", "i", "d", "e">>, <<"s", "t", "a", "r", "t">> >> >> >>

\* (this.intentTypeToActions[intentType] || [])
expectedActionsOf(intentType) ==
  IF intentType \in DOMAIN intentTypeToActions
  THEN intentTypeToActions[intentType]
  ELSE <<>>

(* ------------------------------- scoring ------------------------------- *)

\* an accumulator started at 0 and increased by each element of s in turn
SumSeq(s) ==
  LET acc[k \in 0..Len(s)] == IF k = 0 THEN 0 ELSE acc[k - 1] + s[k]
  IN  acc[Len(s)]

\* the award one keyword adds to matchScore (lines 146-159)
\* the fuzzy award granted on top of the direct one
keywordAwardBoth(toolText, keyword) ==
  LET keywordLower == toLowerCase(keyword)
      direct == IF includes(toolText, keywordLower) THEN One ELSE 0
      fuzzy ==
        IF includes(toolText, substring(keywordLower, MathMax(4, Len(keywordLower) - 2)))
        THEN Tenths(7) ELSE 0
  IN  direct + fuzzy

keywordAward(toolText, keyword) ==
  LET keywordLower == toLowerCase(keyword)
  IN  IF includes(toolText, keywordLower) THEN One
      ELSE IF includes(toolText,
                       substring(keywordLower, MathMax(4, Len(keywordLower) - 2)))
           THEN Tenths(7)
      ELSE 0

\* matchScore as it stands after the loop and the name-in-prompt boost (lines 135-164)
keywordMatchScore(tool, keywords, prompt) ==
  LET toolText ==
        toLowerCase(join(<< tool.name, OrEmptyString(tool.description),
                            JSONstringify(tool.inputSchema) >>, <<" ">>))
      promptLower == toLowerCase(prompt)
      awards ==
        Tuple([i \in 1..Len(keywords) |-> keywordAward(toolText, keywords[i])])
      bonus == IF includes(promptLower, toLowerCase(tool.name)) THEN One ELSE 0
  IN  SumSeq(awards) + bonus

\* the quotient returned without Math.min(..., 1.0)
calculateKeywordMatchUnclamped(tool, keywords, prompt) ==
  IF Len(keywords) = 0 THEN 0
  ELSE Div(keywordMatchScore(tool, keywords, prompt), Len(keywords))

\* no early return on an empty keyword list: the name-in-prompt boost is returned
calculateKeywordMatchNoEarlyReturn(tool, keywords, prompt) ==
  LET matchScore == keywordMatchScore(tool, keywords, prompt)
  IN  IF Len(keywords) > 0
      THEN MathMin(Div(matchScore, Len(keywords)), One)
      ELSE MathMin(matchScore, One)

calculateKeywordMatch(tool, keywords, prompt) ==
  IF Len(keywords) = 0 THEN 0
  ELSE LET matchScore == keywordMatchScore(tool, keywords, prompt)
       IN  IF Len(keywords) > 0
           THEN MathMin(Div(matchScore, Len(keywords)), One)
           ELSE 0

\* { ...this.defaultDomainWeights, ...(params.domainWeights || {}) }
mergeDomainWeights(defaults, configured) ==
  LET over == IF configured = Undefined THEN << >> ELSE configured[1]
      overKeys == IF configured = Undefined THEN {} ELSE DOMAIN over
  IN  [d \in (DOMAIN defaults) \cup overKeys |->
         IF d \in overKeys THEN over[d] ELSE defaults[d]]

\* (domainWeights[domain] || 0.5)
domainWeightOf(domainWeights, domain) ==
  IF domain \in DOMAIN domainWeights /\ domainWeights[domain] # 0
  THEN domainWeights[domain]
  ELSE Tenths(5)

\* the total divided by the number of domains given, not of those that match
calculateDomainRelevanceOverAll(tool, domains, domainWeights) ==
  IF Len(domains) = 0 THEN Tenths(5)
  ELSE
    LET toolText ==
          toLowerCase(join(<< tool.name, OrEmptyString(tool.description) >>, <<" ">>))
        hit(i) == includes(toolText, toLowerCase(domains[i]))
        totalRelevance ==
          SumSeq(Tuple([i \in 1..Len(domains) |->
                          IF hit(i) THEN domainWeightOf(domainWeights, domains[i])
                          ELSE 0]))
    IN  Div(totalRelevance, Len(domains))

calculateDomainRelevance(tool, domains, domainWeights) ==
  IF Len(domains) = 0 THEN Tenths(5)
  ELSE
    LET toolText ==
          toLowerCase(join(<< tool.name, OrEmptyString(tool.description) >>, <<" ">>))
        hit(i) == includes(toolText, toLowerCase(domains[i]))
        totalRelevance ==
          SumSeq(Tuple([i \in 1..Len(domains) |->
                          IF hit(i) THEN domainWeightOf(domainWeights, domains[i])
                          ELSE 0]))
        matchCount == Cardinality({i \in 1..Len(domains) : hit(i)})
    IN  IF matchCount > 0 THEN Div(totalRelevance, matchCount) ELSE 0

\* the expected verbs looked for in the tool's name only
calculateTypeRelevanceNameOnly(tool, intentType) ==
  LET expectedActions == expectedActionsOf(intentType)
  IN  IF Len(expectedActions) = 0 THEN Tenths(5)
      ELSE
        LET toolName == toLowerCase(tool.name)
        IN  IF \E i \in 1..Len(expectedActions) : includes(toolName, expectedActions[i])
            THEN One ELSE Tenths(3)

calculateTypeRelevance(tool, intentType) ==
  LET expectedActions == expectedActionsOf(intentType)
  IN  IF Len(expectedActions) = 0 THEN Tenths(5)
      ELSE
        LET toolName == toLowerCase(tool.name)
            toolDesc == toLowerCase(OrEmptyString(tool.description))
            maxRelevance ==
              IF \E i \in 1..Len(expectedActions) :
                   includes(toolName, expectedActions[i])
                     \/ includes(toolDesc, expectedActions[i])
              THEN One ELSE 0
        IN  IF maxRelevance # 0 THEN maxRelevance ELSE Tenths(3)

\* a running maximum started at m and raised by each element of s in turn
MaxSeq(m, s) ==
  CHOOSE x \in {m} \cup { s[k] : k \in 1..Len(s) } :
    /\ x >= m
    /\ \A k \in 1..Len(s) : x >= s[k]

\* all verbs of the action-category table, in the order the nested loops visit them
allPatternActions ==
  LET upTo[k \in 0..Len(actionPatterns)] ==
        IF k = 0 THEN << >> ELSE upTo[k - 1] \o actionPatterns[k][2]
  IN  upTo[Len(actionPatterns)]

\* the second pass assigning 0.8 instead of raising the maximum to it
calculateActionMatchLastWrite(tool, intentType, prompt) ==
  LET toolName == toLowerCase(tool.name)
      promptLower == toLowerCase(prompt)
      acts == allPatternActions
      passA ==
        Tuple([i \in 1..Len(acts) |->
                 IF includes(toolName, acts[i])
                 THEN IF includes(promptLower, acts[i]) THEN One ELSE Tenths(6)
                 ELSE 0])
      expectedActions == expectedActionsOf(intentType)
  IN  IF \E i \in 1..Len(expectedActions) : includes(toolName, expectedActions[i])
      THEN Tenths(8)
      ELSE MaxSeq(0, passA)

calculateActionMatch(tool, intentType, prompt) ==
  LET toolName == toLowerCase(tool.name)
      promptLower == toLowerCase(prompt)
      acts == allPatternActions
      passA ==
        Tuple([i \in 1..Len(acts) |->
                 IF includes(toolName, acts[i])
                 THEN IF includes(promptLower, acts[i]) THEN One ELSE Tenths(6)
                 ELSE 0])
      expectedActions == expectedActionsOf(intentType)
      passB ==
        Tuple([i \in 1..Len(expectedActions) |->
                 IF includes(toolName, expectedActions[i]) THEN Tenths(8) ELSE 0])
  IN  MaxSeq(MaxSeq(0, passA), passB)

\* a clause for every component that is 0.7 or more
generateReasoningExplanationAtLeast(components, tool, intent) ==
  LET reasons ==
        (IF components.keywordMatch >= Tenths(7)
         THEN << << "Strong keyword match",
                    MathRound(components.keywordMatch * 100) >> >>
         ELSE << >>)
        \o (IF components.domainRelevance >= Tenths(7)
            THEN << << "Highly relevant to domains", intent.domains >> >>
            ELSE << >>)
        \o (IF components.typeRelevance >= Tenths(7)
            THEN << << "Well-suited for tasks", intent.type >> >>
            ELSE << >>)
        \o (IF components.actionMatch >= Tenths(7)
            THEN << << "Action matches user intent" >> >>
            ELSE << >>)
  IN  IF Len(reasons) = 0 THEN << << "General utility tool" >> >> ELSE reasons

\* the clauses pushed to reasons; the reasoning string is their join with '; '
generateReasoningExplanation(components, tool, intent) ==
  LET reasons ==
        (IF components.keywordMatch > Tenths(7)
         THEN << << "Strong keyword match",
                    MathRound(components.keywordMatch * 100) >> >>
         ELSE << >>)
        \o (IF components.domainRelevance > Tenths(7)
            THEN << << "Highly relevant to domains", intent.domains >> >>
            ELSE << >>)
        \o (IF components.typeRelevance > Tenths(7)
            THEN << << "Well-suited for tasks", intent.type >> >>
            ELSE << >>)
        \o (IF components.actionMatch > Tenths(7)
            THEN << << "Action matches user intent" >> >>
            ELSE << >>)
  IN  IF Len(reasons) = 0 THEN << << "General utility tool" >> >> ELSE reasons

\* the keyword weight taken as 0.30
weightsKeywordLight ==
  [keywordMatch |-> Hundredths(30), domainRelevance |-> Hundredths(25),
   typeRelevance |-> Hundredths(20), actionMatch |-> Hundredths(20)]

\* the fixed weights of calculateToolScore
weights ==
  [keywordMatch |-> Hundredths(35), domainRelevance |-> Hundredths(25),
   typeRelevance |-> Hundredths(20), actionMatch |-> Hundredths(20)]

\* Object.entries(components): the component names in declaration order
componentNames == << "keywordMatch", "domainRelevance", "typeRelevance", "actionMatch" >>

calculateToolScore(tool, intent, prompt, domainWeights) ==
  LET components ==
        [keywordMatch |-> calculateKeywordMatch(tool, intent.keywords, prompt),
         domainRelevance |->
           calculateDomainRelevance(tool, intent.domains, domainWeights),
         typeRelevance |-> calculateTypeRelevance(tool, intent.type),
         actionMatch |-> calculateActionMatch(tool, intent.type, prompt)]
      score ==
        SumSeq(Tuple([i \in 1..Len(componentNames) |->
                        Mul(weights[componentNames[i]], components[componentNames[i]])]))
      reasoning == generateReasoningExplanation(components, tool, intent)
  IN  [score |-> score, components |-> components, reasoning |-> reasoning]

(* ------------------------- inputs of the calls ------------------------- *)

\* longest tool list a caller passes to scoreTools
MaxLen == 3

\* largest maxTools a caller passes to selectTools
MaxCount == 3

\* the tool objects the callers hold; a tool is referred to by its index
ToolObjects ==
  << [name |-> <<"c", "o", "m", "p", "i", "l", "e", "_", "c", "o", "n", "t", "r", "a", "c", "t">>,
      description |-> Some(<<"C", "o", "m", "p", "i", "l", "e", "s", " ", "s", "o", "l", "i", "d", "i", "t", "y", " ", "c", "o", "n", "t", "r", "a", "c", "t", "s">>),
      inputSchema |-> << << <<"f", "i", "l", "e">>, <<"s", "t", "r", "i", "n", "g">> >> >>],
     [name |-> <<"u", "n", "r", "e", "l", "a", "t", "e", "d", "_", "t", "o", "o", "l">>,
      description |-> Some(<<>>),
      inputSchema |-> << >>],
     [name |-> <<"h", "e", "l", "p", "e", "r">>,
      description |-> Some(<<"C", "r", "e", "a", "t", "e", " ", "n", "o", "t", "e", "s">>),
      inputSchema |-> << >>],
     [name |-> <<"R", "e", "a", "d", "_", "D", "e", "p", "l", "o", "y">>,
      description |-> Undefined,
      inputSchema |-> << << <<"a", "d", "d", "r", "e", "s", "s">>, <<"s", "t", "r", "i", "n", "g">> >> >>] >>

ToolIds == 1..Len(ToolObjects)

\* the (tool, serverName) pairs a tool list is made of
ToolPairs ==
  { [tool |-> 1, serverName |-> "remix"],
    [tool |-> 2, serverName |-> "remix"],
    [tool |-> 3, serverName |-> "remix"],
    [tool |-> 4, serverName |-> "hardhat"] }

Intents ==
  { [type |-> "coding", keywords |-> << <<"c", "o", "m", "p", "i", "l", "e">> >>,
     domains |-> << <<"s", "o", "l", "i", "d", "i", "t", "y">> >>],
    [type |-> "coding", keywords |-> << <<"c", "o", "m", "p", "i", "l", "e", "r">> >>, domains |-> << >>],
    [type |-> "other", keywords |-> << >>,
     domains |-> << <<"w", "e", "b", "3">>, <<"S", "o", "l", "i", "d", "i", "t", "y">>, <<"n", "o", "t", "e", "s">> >>],
    [type |-> "documentation", keywords |-> << <<"c", "o", "m", "p", "i", "l", "e", "r">>, <<"A", "d", "d", "r", "e", "s", "s">> >>,
     domains |-> << <<"s", "o", "l", "i", "d", "i", "t", "y">>, <<"c", "o", "n", "t", "r", "a", "c", "t">>, <<"n", "f", "t">> >>] }

Prompts ==
  { <<"p", "l", "e", "a", "s", "e", " ", "c", "o", "m", "p", "i", "l", "e", " ", "m", "y", " ", "c", "o", "n", "t", "r", "a", "c", "t">>,
    <<"U", "s", "e", " ", "c", "o", "m", "p", "i", "l", "e", "_", "c", "o", "n", "t", "r", "a", "c", "t", " ", "o", "r", " ", "H", "E", "L", "P", "E", "R", " ", "t", "o", " ", "r", "e", "a", "d">> }

\* IEnhancedMCPProviderParams: both fields optional
ParamsPool ==
  { [domainWeights |-> Undefined, toolRelevanceThreshold |-> Undefined],
    [domainWeights |-> Undefined, toolRelevanceThreshold |-> Some(0)],
    [domainWeights |->
       Some([d \in { <<"s", "o", "l", "i", "d", "i", "t", "y">>, <<"n", "o", "t", "e", "s">> } |->
               IF d = <<"s", "o", "l", "i", "d", "i", "t", "y">> THEN Tenths(4) ELSE Tenths(0)]),
     toolRelevanceThreshold |-> Some(Hundredths(5))],
    [domainWeights |-> Undefined, toolRelevanceThreshold |-> Some(Tenths(5))] }

Strategies == {"priority", "semantic", "hybrid"}

\* strategy tags outside the declared union, as an untyped caller can pass them
OtherStrategies == {"random"}

\* the sequences of length <= n over the set S
SeqsUpTo(S, n) == UNION { [1..k -> S] : k \in 0..n }

ToolLists == SeqsUpTo(ToolPairs, MaxLen)

(* -------------------------- scoreTools, sorting ------------------------ *)

\* calculateToolScore on the enumerated inputs, computed once
\* (the @@ makes TLC tabulate the function instead of re-evaluating it)
ScoreTable ==
  [t \in ToolIds, i \in Intents, p \in Prompts, c \in ParamsPool |->
     calculateToolScore(ToolObjects[t], i, p,
                        mergeDomainWeights(defaultDomainWeights, c.domainWeights))]
    @@ << >>

\* a sort that places the later of two elements that compare equal first
SortTiesReversed(s, cmp) ==
  LET n == Len(s)
      rank(i) ==
        1 + Cardinality({ j \in 1..n : cmp[j][i] < 0 \/ (cmp[j][i] = 0 /\ j > i) })
  IN  Tuple([p \in 1..n |-> s[CHOOSE i \in 1..n : rank(i) = p]])

\* Array.prototype.sort(cmp): stable, a is placed before b when cmp(a, b) < 0;
\* cmp[i][j] is the comparator's value on (s[i], s[j])
Sort(s, cmp) ==
  LET n == Len(s)
      rank(i) ==
        1 + Cardinality({ j \in 1..n : cmp[j][i] < 0 \/ (cmp[j][i] = 0 /\ j < i) })
  IN  Tuple([p \in 1..n |-> s[CHOOSE i \in 1..n : rank(i) = p]])

\* Array.prototype.slice(0, end) for end >= 0
slice(s, end) == SubSeq(s, 1, MathMin(end, Len(s)))

\* (a, b) => b.score - a.score
byScoreDesc(a, b) == b.score - a.score

\* the comparator on the elements of s: entry [i][j] is its value on (s[i], s[j])
byScoreDescOn(s) ==
  [i \in DOMAIN s |-> [j \in DOMAIN s |-> byScoreDesc(s[i], s[j])]]

\* the IToolScore scoreTools pushes for one pair
toolScoreOf(pair, intent, prompt, params) ==
  LET score == ScoreTable[pair.tool, intent, prompt, params]
  IN  [tool |-> pair.tool, serverName |-> pair.serverName, score |-> score.score,
       components |-> score.components, reasoning |-> score.reasoning]

\* no default threshold: every score passes when none is configured
relevanceThresholdOfNoDefault(params) ==
  OrNumber(params.toolRelevanceThreshold, 0)

\* a default threshold of 0.1
relevanceThresholdOfLowDefault(params) ==
  OrNumber(params.toolRelevanceThreshold, Tenths(1))

\* params.toolRelevanceThreshold || 0.3
relevanceThresholdOf(params) == OrNumber(params.toolRelevanceThreshold, Tenths(3))

scoreTools(tools, intent, prompt, params) ==
  LET relevanceThreshold == relevanceThresholdOf(params)
      all ==
        Tuple([k \in 1..Len(tools) |-> toolScoreOf(tools[k], intent, prompt, params)])
      kept == SelectSeq(all, LAMBDA e : e.score >= relevanceThreshold)
  IN  Sort(kept, byScoreDescOn(kept))

(* ------------------------------ selection ------------------------------ *)

\* the slice taken without the sort
selectByScoreUnsorted(ts, maxT) == slice(ts, maxT)

selectByScore(ts, maxT) == slice(Sort(ts, byScoreDescOn(ts)), maxT)

\* the key with typeRelevance added
semanticScoreWithType(t) ==
  t.components.keywordMatch + t.components.domainRelevance
    + t.components.typeRelevance + t.components.actionMatch

semanticScore(t) ==
  t.components.keywordMatch + t.components.domainRelevance + t.components.actionMatch

\* (a, b) => semanticScore(b) - semanticScore(a), both scaled by 3
bySemanticDesc(a, b) == semanticScore(b) - semanticScore(a)

bySemanticDescOn(s) ==
  [i \in DOMAIN s |-> [j \in DOMAIN s |-> bySemanticDesc(s[i], s[j])]]

selectBySemantic(ts, maxT) == slice(Sort(ts, bySemanticDescOn(ts)), maxT)

\* the default branch falling into the 'priority' case
selectFallbackSorted(ts, maxT) == slice(Sort(ts, byScoreDescOn(ts)), maxT)

\* the default branch of selectTools' switch
selectFallback(ts, maxT) == slice(ts, maxT)

\* the category of the last matching table entry, not of the first
inferToolCategoryLastMatch(tool) ==
  LET name == toLowerCase(tool.name)
      n == Len(actionPatterns)
      upto[k \in 0..n] ==
        IF k = 0 THEN "general"
        ELSE IF \E i \in 1..Len(actionPatterns[k][2]) :
                  includes(name, actionPatterns[k][2][i])
             THEN actionPatterns[k][1]
             ELSE upto[k - 1]
  IN  upto[n]

inferToolCategory(tool) ==
  LET name == toLowerCase(tool.name)
      n == Len(actionPatterns)
      \* what the loops return when started at category k
      from[j \in 0..n] ==
        LET k == n + 1 - j
        IN  IF j = 0 THEN "general"
            ELSE IF \E i \in 1..Len(actionPatterns[k][2]) :
                      includes(name, actionPatterns[k][2][i])
                 THEN actionPatterns[k][1]
                 ELSE from[j - 1]
  IN  from[n]

\* inferToolCategory on the tool objects, computed once
CategoryTable == [t \in ToolIds |-> inferToolCategory(ToolObjects[t])] @@ << >>

\* (map.get(key) || 0)
countOf(map, key) == IF key \in DOMAIN map THEN map[key] ELSE 0

\* map.set(key, value)
mapSet(map, key, value) ==
  [k \in (DOMAIN map) \cup {key} |-> IF k = key THEN value ELSE map[k]]

\* the two terms without their caps
diversityPenaltyUncapped(serverCount, categoryCount) ==
  serverCount * Hundredths(5) + categoryCount * Tenths(1)

diversityPenalty(serverCount, categoryCount) ==
  MathMin(serverCount * Hundredths(5), Tenths(2))
    + MathMin(categoryCount * Tenths(1), Tenths(3))

\* the aggregate taken without the diversity penalty
adjustedScoreOfNoPenalty(toolScore, serverCount, categoryCount) == toolScore.score

adjustedScoreOf(toolScore, serverCount, categoryCount) ==
  Mul(toolScore.score, One - diversityPenalty(serverCount, categoryCount))

\* a minimum above half of 0.3
MinAdjustedAboveHalf == Hundredths(16)

\* the minimum adjusted score of selectByHybrid
MinAdjusted == Hundredths(15)

\* selectByHybrid as a function of its arguments: after[k] holds the locals
\* once the loop has dealt with the first k elements
selectByHybrid(tools, maxT) ==
  LET after[k \in 0..Len(tools)] ==
        IF k = 0
        THEN [selected |-> << >>, serverCounts |-> << >>, categoryCounts |-> << >>]
        ELSE
          LET before == after[k - 1]
              toolScore == tools[k]
              serverCount == countOf(before.serverCounts, toolScore.serverName)
              category == CategoryTable[toolScore.tool]
              categoryCount == countOf(before.categoryCounts, category)
              adjustedScore == adjustedScoreOf(toolScore, serverCount, categoryCount)
          IN  IF Len(before.selected) >= maxT THEN before
              ELSE IF adjustedScore > MinAdjusted
                   THEN [selected |-> Append(before.selected, toolScore),
                         serverCounts |->
                           mapSet(before.serverCounts, toolScore.serverName, serverCount + 1),
                         categoryCounts |->
                           mapSet(before.categoryCounts, category, categoryCount + 1)]
                   ELSE before
  IN  after[Len(tools)].selected

\* selectTools as a function of its arguments
selectTools(list, maxT, st) ==
  CASE st = "priority" -> selectByScore(list, maxT)
    [] st = "semantic" -> selectBySemantic(list, maxT)
    [] st = "hybrid" -> selectByHybrid(list, maxT)
    [] OTHER -> selectFallback(list, maxT)

(* ------------------------------- the state ----------------------------- *)

VARIABLES
  this,           \* the ToolScoring instance: its three readonly tables
  pc,             \* "idle", "ready" (arguments of scoreTools chosen), "scored",
                  \* "chosen" (arguments of selectTools chosen), "hybrid" (inside
                  \* selectByHybrid's loop), "selected"
  argTools, argIntent, argPrompt, argParams,   \* the caller's arguments (tools, intent,
                                               \* prompt, params) of scoreTools
  scoredTools,    \* what the last scoreTools call returned
  candidates, maxTools,   \* the caller's list and the count it passes to selectTools
  candidatesFrom, \* where the caller has its list from: "none", "scoreTools",
                  \* "caller" (built by hand), or "hybrid": a selectTools call
                  \* of that strategy, made with maxTools, returned it
  strategy,       \* the strategy of the last selectTools call
  cursor,         \* selectByHybrid: index of the next element of the for-of loop
  selected, serverCounts, categoryCounts,   \* selectByHybrid's locals
  trail,          \* selectByHybrid: what each iteration so far computed and decided
  result,         \* what the last selectTools call returned
  env,            \* the proxy server's process.env: CIRCLECI_TOKEN and CIRCLE_TOKEN
  requests,       \* the /api/circleci/* requests the proxy server has received
  triggers,       \* the POST /api/trigger requests the proxy server has received
  running         \* the proxy server's process is alive

toolScoringVars ==
  << this, pc, argTools, argIntent, argPrompt, argParams, scoredTools, candidates,
     candidatesFrom, maxTools, strategy, cursor, selected, serverCounts, categoryCounts, trail, result >>

proxyVars == << env, requests, triggers, running >>

vars == << toolScoringVars, proxyVars >>

scoreVars == << argTools, argIntent, argPrompt, argParams, scoredTools >>

hybridVars == << cursor, selected, serverCounts, categoryCounts, trail >>

EmptyMap == << >>

\* the fields of a ToolScoring instance as its initializers set them
ReferenceTables ==
  [defaultDomainWeights |-> defaultDomainWeights,
   intentTypeToActions |-> intentTypeToActions,
   actionPatterns |-> actionPatterns]

\* the values the argument variables hold while no call's arguments are live
NoIntent == [type |-> "", keywords |-> << >>, domains |-> << >>]

NoParams == [domainWeights |-> Undefined, toolRelevanceThreshold |-> Undefined]

\* the proxy server is not running
ProxyDown ==
  /\ env = [CIRCLECI_TOKEN |-> Undefined, CIRCLE_TOKEN |-> Undefined]
  /\ requests = << >>
  /\ triggers = << >>
  /\ running = FALSE

\* a ToolScoring instance after construction, with no call made on it
NewToolScoring ==
  /\ this = ReferenceTables
  /\ pc = "idle"
  /\ argTools = << >>
  /\ argIntent = NoIntent
  /\ argPrompt = << >>
  /\ argParams = NoParams
  /\ scoredTools = << >>
  /\ candidates = << >>
  /\ candidatesFrom = "none"
  /\ maxTools = 0
  /\ strategy = "hybrid"
  /\ cursor = 1
  /\ selected = << >>
  /\ serverCounts = EmptyMap
  /\ categoryCounts = EmptyMap
  /\ trail = << >>
  /\ result = << >>

Init == NewToolScoring /\ ProxyDown

\* selectByHybrid's locals as its declarations set them
FreshLocals ==
  /\ cursor' = 1
  /\ selected' = << >>
  /\ serverCounts' = EmptyMap
  /\ categoryCounts' = EmptyMap
  /\ trail' = << >>

\* no selectTools call is in progress or has returned
ClearSelection ==
  /\ candidates' = << >>
  /\ candidatesFrom' = "none"
  /\ maxTools' = 0
  /\ strategy' = "hybrid"
  /\ FreshLocals
  /\ result' = << >>

\* the caller builds the arguments of a scoreTools call
PrepareScore ==
  /\ pc = "idle"
  /\ \E ts \in ToolLists, in \in Intents, pr \in Prompts, ps \in ParamsPool :
    /\ argTools' = ts
    /\ argIntent' = in
    /\ argPrompt' = pr
    /\ argParams' = ps
  /\ pc' = "ready"
  /\ UNCHANGED << this, scoredTools, candidates, candidatesFrom, maxTools, strategy, result >>
  /\ UNCHANGED hybridVars
  /\ UNCHANGED proxyVars

\* scoreTools on the instance self: the domain weights are merged over
\* self.defaultDomainWeights; the scores of an instance whose tables are the
\* reference tables are those tabulated in ScoreTable
scoreToolsOn(self, tools, intent, prompt, params) ==
  IF self = ReferenceTables THEN scoreTools(tools, intent, prompt, params)
  ELSE
    LET domainWeights == mergeDomainWeights(self.defaultDomainWeights, params.domainWeights)
        relevanceThreshold == relevanceThresholdOf(params)
        all == Tuple([k \in DOMAIN tools |->
                 LET score == calculateToolScore(ToolObjects[tools[k].tool], intent,
                                                 prompt, domainWeights)
                 IN  [tool |-> tools[k].tool, serverName |-> tools[k].serverName,
                      score |-> score.score, components |-> score.components,
                      reasoning |-> score.reasoning]])
        kept == SelectSeq(all, LAMBDA e : e.score >= relevanceThreshold)
    IN  Sort(kept, byScoreDescOn(kept))

\* scoreTools(argTools, argIntent, argPrompt, argParams)
ScoreTools ==
  /\ pc = "ready"
  /\ scoredTools' = scoreToolsOn(this, argTools, argIntent, argPrompt, argParams)
  /\ pc' = "scored"
  /\ UNCHANGED << this, argTools, argIntent, argPrompt, argParams >>
  /\ UNCHANGED << candidates, candidatesFrom, maxTools, strategy, result >>
  /\ UNCHANGED hybridVars
  /\ UNCHANGED proxyVars

RECURSIVE Orderings(_)
\* the orders in which a caller can hold the entries of a list
Orderings(s) ==
  IF Len(s) <= 1 THEN {s}
  ELSE UNION { { <<s[i]>> \o q :
                 q \in Orderings(Tuple([k \in 1..(Len(s) - 1) |->
                                           IF k < i THEN s[k] ELSE s[k + 1]])) } :
               i \in 1..Len(s) }

\* the lists a caller passes to selectTools: the scored list, in any order
CallerLists == Orderings(scoredTools)

\* the caller builds the arguments of its selectTools calls: its list, in
\* some order, and a count; it keeps the scored list and the params and lets
\* go of the other arguments of scoreTools
PrepareSelect ==
  /\ pc = "scored"
  /\ \E c \in CallerLists, n \in 0..MaxCount :
    /\ candidates' = c
    /\ maxTools' = n
  /\ candidatesFrom' = "scoreTools"
  /\ argTools' = << >>
  /\ argIntent' = NoIntent
  /\ argPrompt' = << >>
  /\ pc' = "chosen"
  /\ UNCHANGED << this, argParams, scoredTools, strategy, result >>
  /\ UNCHANGED hybridVars
  /\ UNCHANGED proxyVars

\* an IToolScore as a caller can build one: the aggregate is the weighted sum
\* of the components
toolScoreWith(tool, serverName, keywordMatch, domainRelevance, typeRelevance, actionMatch) ==
  LET components ==
        [keywordMatch |-> keywordMatch, domainRelevance |-> domainRelevance,
         typeRelevance |-> typeRelevance, actionMatch |-> actionMatch]
  IN  [tool |-> tool, serverName |-> serverName,
       score |-> SumSeq(Tuple([i \in DOMAIN componentNames |->
                                 Mul(weights[componentNames[i]],
                                     components[componentNames[i]])])),
       components |-> components,
       reasoning |-> << << "General utility tool" >> >>]

\* three entries of one server and one category with the aggregates 0.9,
\* 0.85 and 0.8
DiversityExample ==
  << toolScoreWith(1, "remix", One, One, Tenths(5), One),
     toolScoreWith(1, "remix", One, Tenths(4), One, One),
     toolScoreWith(1, "remix", One, One, One, 0) >>

\* six entries of one server and one category with the aggregate 0.9
CrowdedExample ==
  [i \in 1..6 |-> toolScoreWith(1, "remix", One, One, Tenths(5), One)] @@ << >>

\* six entries of one server and one category with the aggregate 0.305
LowCrowdedExample ==
  [i \in 1..6 |-> toolScoreWith(1, "remix", 0, Tenths(5), Tenths(3), Tenths(6))] @@ << >>

\* lists of IToolScore that a caller holds without a scoreTools call
GivenLists == {DiversityExample, CrowdedExample, LowCrowdedExample}

\* the caller builds the arguments of its selectTools calls from a list it holds
PrepareSelectGiven ==
  /\ pc = "idle"
  /\ \E c \in GivenLists :
       /\ candidates' = c
       /\ maxTools' \in {MaxCount, Len(c)}
  /\ candidatesFrom' = "caller"
  /\ pc' = "chosen"
  /\ UNCHANGED << this, argParams, scoredTools, strategy, result >>
  /\ UNCHANGED << argTools, argIntent, argPrompt >>
  /\ UNCHANGED hybridVars
  /\ UNCHANGED proxyVars

\* the caller passes what its last selectTools call, a 'hybrid' one, returned
\* to a further selectTools call, with the same count
PrepareSelectAgain ==
  /\ pc = "selected"
  /\ strategy = "hybrid"
  /\ candidates' = result
  /\ candidatesFrom' = strategy
  /\ pc' = "chosen"
  /\ UNCHANGED << this, maxTools, strategy, result >>
  /\ UNCHANGED scoreVars
  /\ UNCHANGED hybridVars
  /\ UNCHANGED proxyVars

\* the part of a selectTools call every strategy shares: a call is made with
\* the caller's list and count, the first one or a further one
BeginSelect(st) ==
  /\ pc \in {"chosen", "selected"}
  /\ strategy' = st
  /\ UNCHANGED << this, candidates, candidatesFrom, maxTools >>
  /\ UNCHANGED scoreVars
  /\ UNCHANGED proxyVars

\* selectByScore sorting the caller's array itself, not a copy of it
SelectPrioritySortingInPlace ==
  /\ pc \in {"chosen", "selected"}
  /\ strategy' = "priority"
  /\ candidates' = Sort(candidates, byScoreDescOn(candidates))
  /\ result' = slice(candidates', maxTools)
  /\ FreshLocals
  /\ pc' = "selected"
  /\ UNCHANGED << this, candidatesFrom, maxTools >>
  /\ UNCHANGED scoreVars
  /\ UNCHANGED proxyVars

SelectPriority ==
  /\ BeginSelect("priority")
  /\ result' = selectByScore(candidates, maxTools)
  /\ FreshLocals
  /\ pc' = "selected"

SelectSemantic ==
  /\ BeginSelect("semantic")
  /\ result' = selectBySemantic(candidates, maxTools)
  /\ FreshLocals
  /\ pc' = "selected"

\* the default branch of the switch
SelectFallback ==
  /\ \E st \in OtherStrategies : BeginSelect(st)
  /\ result' = selectFallback(candidates, maxTools)
  /\ FreshLocals
  /\ pc' = "selected"

\* selectByHybrid entered with the locals of the call before it
SelectHybridKeepingLocals ==
  /\ BeginSelect("hybrid")
  /\ cursor' = 1
  /\ trail' = << >>
  /\ UNCHANGED << selected, serverCounts, categoryCounts >>
  /\ UNCHANGED result
  /\ pc' = "hybrid"

\* selectByHybrid entered with the two counters of the call before it
SelectHybridKeepingCounts ==
  /\ BeginSelect("hybrid")
  /\ cursor' = 1
  /\ selected' = << >>
  /\ trail' = << >>
  /\ UNCHANGED << serverCounts, categoryCounts >>
  /\ UNCHANGED result
  /\ pc' = "hybrid"

\* selectByHybrid up to its loop; the caller still holds what the call
\* before returned
SelectHybrid ==
  /\ BeginSelect("hybrid")
  /\ FreshLocals
  /\ UNCHANGED result
  /\ pc' = "hybrid"

\* an iteration that counts the candidate's source and category whether or
\* not it accepts it
HybridStepCountingRejected ==
  /\ pc = "hybrid"
  /\ cursor <= Len(candidates)
  /\ Len(selected) < maxTools
  /\ LET toolScore == candidates[cursor]
         serverCount == countOf(serverCounts, toolScore.serverName)
         category == CategoryTable[toolScore.tool]
         categoryCount == countOf(categoryCounts, category)
         adjustedScore == adjustedScoreOf(toolScore, serverCount, categoryCount)
         accept == adjustedScore > MinAdjusted
     IN  /\ selected' = IF accept THEN Append(selected, toolScore) ELSE selected
         /\ serverCounts' =
              mapSet(serverCounts, toolScore.serverName, serverCount + 1)
         /\ categoryCounts' = mapSet(categoryCounts, category, categoryCount + 1)
         /\ trail' = Append(trail, [index |-> cursor, adjustedScore |-> adjustedScore,
                                    accepted |-> accept])
  /\ cursor' = cursor + 1
  /\ UNCHANGED << this, pc, candidates, candidatesFrom, maxTools, strategy, result >>
  /\ UNCHANGED scoreVars
  /\ UNCHANGED proxyVars

\* one iteration of selectByHybrid's loop that does not break
HybridStep ==
  /\ pc = "hybrid"
  /\ cursor <= Len(candidates)
  /\ Len(selected) < maxTools
  /\ LET toolScore == candidates[cursor]
         serverCount == countOf(serverCounts, toolScore.serverName)
         category == CategoryTable[toolScore.tool]
         categoryCount == countOf(categoryCounts, category)
         adjustedScore == adjustedScoreOf(toolScore, serverCount, categoryCount)
         accept == adjustedScore > MinAdjusted
     IN  /\ IF accept
            THEN /\ selected' = Append(selected, toolScore)
                 /\ serverCounts' =
                      mapSet(serverCounts, toolScore.serverName, serverCount + 1)
                 /\ categoryCounts' = mapSet(categoryCounts, category, categoryCount + 1)
            ELSE UNCHANGED << selected, serverCounts, categoryCounts >>
         /\ trail' = Append(trail, [index |-> cursor, adjustedScore |-> adjustedScore,
                                    accepted |-> accept])
  /\ cursor' = cursor + 1
  /\ UNCHANGED << this, pc, candidates, candidatesFrom, maxTools, strategy, result >>
  /\ UNCHANGED scoreVars
  /\ UNCHANGED proxyVars

\* the loop ends (input exhausted, or the break) and selectByHybrid returns
HybridReturn ==
  /\ pc = "hybrid"
  /\ (cursor > Len(candidates) \/ Len(selected) >= maxTools)
  /\ result' = selected
  /\ pc' = "selected"
  /\ UNCHANGED << this, candidates, candidatesFrom, maxTools, strategy >>
  /\ UNCHANGED hybridVars
  /\ UNCHANGED scoreVars
  /\ UNCHANGED proxyVars

\* the caller drops its lists; the instance lives on
Release ==
  /\ pc = "selected"
  /\ pc' = "idle"
  /\ argTools' = << >>
  /\ argIntent' = NoIntent
  /\ argPrompt' = << >>
  /\ argParams' = NoParams
  /\ scoredTools' = << >>
  /\ ClearSelection
  /\ UNCHANGED this
  /\ UNCHANGED proxyVars

Next ==
  \/ PrepareScore
  \/ ScoreTools
  \/ PrepareSelect
  \/ PrepareSelectGiven
  \/ PrepareSelectAgain
  \/ SelectPriority
  \/ SelectSemantic
  \/ SelectFallback
  \/ SelectHybrid
  \/ HybridStep
  \/ HybridReturn
  \/ Release

Spec == Init /\ [][Next]_vars

(* ------------------- the CircleCI proxy (proxy-server.ts) -------------- *)

\* the number of requests (/api/circleci/* and /api/trigger) followed
MaxRequests == 2

\* a || b on optional strings: a unless it is undefined or empty
OrString(a, b) == IF a # Undefined /\ a # Some("") THEN a ELSE b

\* !x for an optional string
Falsy(x) == x = Undefined \/ x = Some("")

\* what an environment variable can hold when the server starts
EnvValues == {Undefined, Some(""), Some("server-token"), Some("legacy-token")}

\* what the x-circleci-token header of a request can hold
ClientTokens == {Undefined, Some(""), Some("client-token")}

\* process.env.CIRCLECI_TOKEN || process.env.CIRCLE_TOKEN
serverTokenOf(e) == OrString(e.CIRCLECI_TOKEN, e.CIRCLE_TOKEN)

\* const token = clientToken || serverToken
tokenOf(clientToken, e) == OrString(clientToken, serverTokenOf(e))

\* the statuses of CircleCI's error responses that are followed; << >> stands
\* for an error without a response
UpstreamErrors == {Some(404), Undefined}

\* the server starts: dotenv and the system environment have set process.env
ProxyInit ==
  /\ NewToolScoring
  /\ env \in [CIRCLECI_TOKEN : EnvValues, CIRCLE_TOKEN : EnvValues]
  /\ requests = << >>
  /\ triggers = << >>
  /\ running = TRUE

\* a /api/circleci/* handler up to its await: without a token it answers 401,
\* with one it sends the upstream request with the Circle-Token header
ProxyHandle(method, clientToken) ==
  /\ running
  /\ Len(requests) + Len(triggers) < MaxRequests
  /\ LET token == tokenOf(clientToken, env)
         request == [method |-> method, clientToken |-> clientToken]
     IN  IF Falsy(token)
         THEN requests' = Append(requests,
                [request |-> request, upstream |-> Undefined, status |-> Some(401)])
         ELSE requests' = Append(requests,
                [request |-> request,
                 upstream |-> Some([method |-> method, CircleToken |-> token[1]]),
                 status |-> Undefined])
  /\ UNCHANGED << env, triggers, running >>

\* app.get('/api/circleci/*')
ProxyGet ==
  /\ \E clientToken \in ClientTokens : ProxyHandle("GET", clientToken)
  /\ UNCHANGED toolScoringVars

\* app.post('/api/circleci/*')
ProxyPost ==
  /\ \E clientToken \in ClientTokens : ProxyHandle("POST", clientToken)
  /\ UNCHANGED toolScoringVars

\* the awaited upstream call of request i resolves: res.json(response.data)
UpstreamResolves ==
  /\ running
  /\ \E i \in DOMAIN requests :
       /\ requests[i].status = Undefined
       /\ requests' = [requests EXCEPT ![i].status = Some(200)]
  /\ UNCHANGED << env, triggers, running >>
  /\ UNCHANGED toolScoringVars

\* the awaited upstream call of request i rejects: the catch block answers
\* with error.response?.status || 500
UpstreamRejects ==
  /\ running
  /\ \E i \in DOMAIN requests, error \in UpstreamErrors :
       /\ requests[i].status = Undefined
       /\ requests' = [requests EXCEPT ![i].status = Some(OrNumber(error, 500))]
  /\ UNCHANGED << env, triggers, running >>
  /\ UNCHANGED toolScoringVars

\* what req.body.test can hold
TestNames == {Undefined, Some(""), Some("editor")}

\* the exit codes of a trigger script that was started
ExitCodes == {0, 1}

\* the code 'close' carries after a failed spawn: the negative errno (ENOENT)
SpawnErrno == 0 - 2

\* res.json / res.status(s).json for trigger request i: the call is recorded;
\* on a response that was already sent it throws ERR_HTTP_HEADERS_SENT, which
\* nothing catches in an event listener, and the process ends
respond(i, status, child) ==
  /\ triggers' = [triggers EXCEPT ![i].calls = Append(@, status),
                                  ![i].child = child]
  /\ running' = (triggers[i].calls = << >>)

\* app.post('/api/trigger'): 400 without a test name; with one the handler
\* spawns the trigger script, registers its listeners and returns. A spawn
\* that fails throws nothing: its 'error' is emitted on a later tick
TriggerPost ==
  /\ running
  /\ Len(requests) + Len(triggers) < MaxRequests
  /\ \E test \in TestNames :
       IF Falsy(test)
       THEN triggers' = Append(triggers,
              [test |-> test, child |-> "none", calls |-> << 400 >>])
       ELSE \E child \in {"spawned", "failed"} :
              triggers' = Append(triggers,
                [test |-> test, child |-> child, calls |-> << >>])
  /\ UNCHANGED << env, requests, running >>
  /\ UNCHANGED toolScoringVars

\* child.on('error'): the spawn of request i failed
ChildError ==
  /\ running
  /\ \E i \in DOMAIN triggers :
       /\ triggers[i].child = "failed"
       /\ respond(i, 500, "errored")
  /\ UNCHANGED << env, requests >>
  /\ UNCHANGED toolScoringVars

\* child.on('close'): the script of request i has ended with an exit code, or
\* the child whose spawn failed is closed
ChildClose ==
  /\ running
  /\ \E i \in DOMAIN triggers :
       \E code \in (IF triggers[i].child = "spawned" THEN ExitCodes ELSE {SpawnErrno}) :
         /\ triggers[i].child \in {"spawned", "errored"}
         /\ respond(i, IF code = 0 THEN 200 ELSE 500, "closed")
  /\ UNCHANGED << env, requests >>
  /\ UNCHANGED toolScoringVars

ProxyNext ==
  \/ ProxyGet
  \/ ProxyPost
  \/ UpstreamResolves
  \/ UpstreamRejects
  \/ TriggerPost
  \/ ChildError
  \/ ChildClose

ProxySpec == ProxyInit /\ [][ProxyNext]_vars

(* ------------------------------ properties ----------------------------- *)

\* the products calculateToolScore and selectByHybrid form lose no fraction
ExactArithmetic ==
  /\ \A k \in DOMAIN ScoreTable :
       \A n \in DOMAIN weights :
         (weights[n] * ScoreTable[k].components[n]) % One = 0
  /\ \A i \in DOMAIN candidates :
       \A s \in 0..MaxLen, c \in 0..MaxLen :
         (candidates[i].score * (One - diversityPenalty(s, c))) % One = 0

\* the ToolScore of the k-th tool passed to the last scoreTools call
InputScore(k) == toolScoreOf(argTools[k], argIntent, argPrompt, argParams)

\* the numbers of keys are in non-increasing order
NonIncreasing(keys) ==
  \A i \in DOMAIN keys, j \in DOMAIN keys : i < j => keys[i] >= keys[j]

\* the aggregates of the entries of s, in the order of s
Aggregates(s) == [i \in DOMAIN s |-> s[i].score]

\* the number of positions of s that hold e
Occurrences(s, e) == Cardinality({i \in DOMAIN s : s[i] = e})

\* C1: every entry scoreTools returns has
\* score = 0.35*keywordMatch + 0.25*domainRelevance + 0.20*typeRelevance
\* + 0.20*actionMatch, and the four weights sum to 1.0
C1_AggregateIsWeightedSum ==
  /\ weights.keywordMatch + weights.domainRelevance
       + weights.typeRelevance + weights.actionMatch = One
  /\ \A i \in DOMAIN scoredTools :
       LET c == scoredTools[i].components
       IN  100 * scoredTools[i].score
             = 35 * c.keywordMatch + 25 * c.domainRelevance
                 + 20 * c.typeRelevance + 20 * c.actionMatch

\* scoreTools returned an entry whose four components are positive and not all equal
C1_Witness ==
  /\ pc = "scored"
  /\ \E i \in DOMAIN scoredTools :
       LET c == scoredTools[i].components
       IN  /\ c.keywordMatch > 0 /\ c.keywordMatch < One
           /\ c.domainRelevance > 0 /\ c.typeRelevance > 0 /\ c.actionMatch > 0
           /\ c.typeRelevance # c.domainRelevance

\* the threshold a call is made with: the configured one, 0.3 when none is configured
ThresholdInEffect ==
  IF argParams.toolRelevanceThreshold = Undefined THEN Tenths(3)
  ELSE argParams.toolRelevanceThreshold[1]

\* C2: scoreTools returns no entry whose aggregate is below the threshold in
\* effect, returns its entries in non-increasing order of aggregate, and under
\* the default threshold never returns a tool of aggregate 0.185
C2_ThresholdAndOrder ==
  /\ \A i \in DOMAIN scoredTools : scoredTools[i].score >= ThresholdInEffect
  /\ NonIncreasing(Aggregates(scoredTools))
  /\ argParams.toolRelevanceThreshold = Undefined
       => \A i \in DOMAIN scoredTools : 1000 * scoredTools[i].score # 185 * One

\* under the default threshold a tool of aggregate 0.185 was passed in, it was
\* dropped, and two entries of different aggregates were returned
C2_Witness ==
  /\ pc = "scored"
  /\ argParams.toolRelevanceThreshold = Undefined
  /\ \E k \in DOMAIN argTools :
       /\ 1000 * InputScore(k).score = 185 * One
       /\ \A i \in DOMAIN scoredTools : scoredTools[i].tool # argTools[k].tool
  /\ Len(scoredTools) >= 2
  /\ scoredTools[1].score > scoredTools[Len(scoredTools)].score

\* C3: for every configured threshold t in [0, 1] scoreTools returns exactly
\* the input (tool, serverName) pairs whose aggregate is >= t, and 0.3 is used
\* only when no threshold is configured
C3_ExactlyThePairsAtOrAboveThreshold ==
  pc = "scored" =>
    \A pair \in ToolPairs :
      Cardinality({i \in DOMAIN scoredTools :
                     /\ scoredTools[i].tool = pair.tool
                     /\ scoredTools[i].serverName = pair.serverName})
        = Cardinality({k \in DOMAIN argTools :
                         /\ argTools[k] = pair
                         /\ InputScore(k).score >= ThresholdInEffect})

\* C4: each of the four components lies in [0, 1] and so does the aggregate,
\* also when every keyword matches and the name-in-prompt boost is added
C4_ComponentsAndAggregateInUnitInterval ==
  pc = "scored" =>
    \A k \in DOMAIN argTools :
      LET e == InputScore(k)
      IN  /\ \A n \in DOMAIN e.components :
               e.components[n] >= 0 /\ e.components[n] <= One
          /\ e.score >= 0 /\ e.score <= One

\* a tool was scored whose keywords all matched directly and whose name is in
\* the prompt: the sum of the awards and the boost exceeds the keyword count
C4_Witness ==
  /\ pc = "scored"
  /\ Len(argIntent.keywords) > 0
  /\ \E k \in DOMAIN argTools :
       /\ keywordMatchScore(ToolObjects[argTools[k].tool], argIntent.keywords, argPrompt)
            > Len(argIntent.keywords) * One
       /\ InputScore(k).components.keywordMatch = One

\* C5: with an empty keyword list keywordMatch is 0 for every tool and prompt,
\* also when the prompt contains the tool's name
C5_EmptyKeywordsScoreZero ==
  (pc = "scored" /\ argIntent.keywords = << >>) =>
    \A k \in DOMAIN argTools : InputScore(k).components.keywordMatch = 0

\* a tool was scored with no keywords and a prompt that contains its name
C5_Witness ==
  /\ pc = "scored"
  /\ argIntent.keywords = << >>
  /\ \E k \in DOMAIN argTools :
       includes(toLowerCase(argPrompt), toLowerCase(ToolObjects[argTools[k].tool].name))

\* the positions of the intent's domains that occur in the lower-cased name
\* and description of each tool object
MatchingDomains ==
  [t \in ToolIds, i \in Intents |->
     LET tool == ToolObjects[t]
         text == toLowerCase(join(<< tool.name, OrEmptyString(tool.description) >>, <<" ">>))
     IN  {d \in DOMAIN i.domains : includes(text, toLowerCase(i.domains[d]))}] @@ << >>

\* the weights a call is made with, each configured weight overriding its default
WeightsInEffect ==
  [c \in ParamsPool |-> mergeDomainWeights(defaultDomainWeights, c.domainWeights)] @@ << >>

C7_PriorityTopByAggregate ==
  (pc = "selected" /\ strategy = "priority") =>
    /\ Len(result) <= maxTools
    /\ NonIncreasing(Aggregates(result))
    /\ \A i \in DOMAIN result :
         Occurrences(result, result[i]) <= Occurrences(candidates, result[i])

\* 'priority' was given an input that is not in order of aggregate and is
\* longer than maxTools, and returned at least two entries
C7_Witness ==
  /\ pc = "selected" /\ strategy = "priority"
  /\ ~NonIncreasing(Aggregates(candidates))
  /\ Len(candidates) > maxTools
  /\ Len(result) >= 2
  /\ result[1].score > result[2].score

\* the steps of selectByHybrid's loop that pushed their element
AcceptedSteps == SelectSeq(trail, LAMBDA step : step.accepted)

\* the penalty, in hundredths, of the element examined at step p of the loop:
\* 5 per entry accepted before it from its server, at most 20, plus 10 per
\* entry accepted before it of its category, at most 30
PenaltyAtStep(p) ==
  LET e == candidates[trail[p].index]
      before == {q \in 1..(p - 1) : trail[q].accepted}
      sameServer ==
        Cardinality({q \in before : candidates[trail[q].index].serverName = e.serverName})
      sameCategory ==
        Cardinality({q \in before :
                       CategoryTable[candidates[trail[q].index].tool] = CategoryTable[e.tool]})
  IN  MathMin(5 * sameServer, 20) + MathMin(10 * sameCategory, 30)

\* C8: the 'hybrid' strategy returns at most maxTools entries, every returned
\* entry had an adjusted score strictly greater than 0.15 when it was
\* examined, and the entries returned are a subsequence of the input
C8_HybridSubsequenceAboveMinimum ==
  (strategy = "hybrid" /\ pc \in {"hybrid", "selected"}) =>
    LET acc == AcceptedSteps
    IN  /\ Len(selected) <= maxTools
        /\ Len(selected) = Len(acc)
        /\ \A j \in DOMAIN acc : selected[j] = candidates[acc[j].index]
        /\ \A j \in DOMAIN acc, k \in DOMAIN acc : j < k => acc[j].index < acc[k].index
        /\ \A p \in DOMAIN trail :
             trail[p].accepted =>
               candidates[trail[p].index].score * (100 - PenaltyAtStep(p)) > 15 * One
        /\ pc = "selected" => result = selected

\* 'hybrid' returned after it skipped an element, accepted a later one, and
\* accepted one under a positive penalty
C8_Witness ==
  /\ pc = "selected" /\ strategy = "hybrid"
  /\ \E p \in DOMAIN trail, q \in DOMAIN trail :
       p < q /\ ~trail[p].accepted /\ trail[q].accepted
  /\ \E p \in DOMAIN trail : trail[p].accepted /\ PenaltyAtStep(p) > 0

\* C9: with a strategy other than 'priority', 'semantic' and 'hybrid',
\* selectTools returns the first maxTools items of its input in input order
C9_UnknownStrategyTakesPrefix ==
  (pc = "selected" /\ strategy \notin Strategies) =>
    /\ Len(result) = IF maxTools < Len(candidates) THEN maxTools ELSE Len(candidates)
    /\ \A i \in DOMAIN result : result[i] = candidates[i]

\* an unrecognised strategy was given an input that is not in order of
\* aggregate and is longer than maxTools, and returned something
C9_Witness ==
  /\ pc = "selected" /\ strategy \notin Strategies
  /\ ~NonIncreasing(Aggregates(candidates))
  /\ maxTools > 0 /\ maxTools < Len(candidates)
  /\ result # << >>

\* three times the semantic score: keywordMatch + domainRelevance + actionMatch
SemanticKey(e) ==
  e.components.keywordMatch + e.components.domainRelevance + e.components.actionMatch

\* the entries of s whose semantic key is v, in the order of s
SemanticGroup(s, v) == SelectSeq(s, LAMBDA e : SemanticKey(e) = v)

IsPrefix(a, b) == Len(a) <= Len(b) /\ \A i \in DOMAIN a : a[i] = b[i]

\* C10: the 'semantic' strategy returns the first maxTools entries of its
\* input ordered by (keywordMatch + domainRelevance + actionMatch) / 3,
\* non-increasing; typeRelevance and the aggregate have no influence, and
\* entries of equal semantic score keep their relative input order
C10_SemanticStableTopByKey ==
  (pc = "selected" /\ strategy = "semantic") =>
    LET n == IF maxTools < Len(candidates) THEN maxTools ELSE Len(candidates)
        keys == {SemanticKey(candidates[i]) : i \in DOMAIN candidates}
    IN  /\ Len(result) = n
        /\ NonIncreasing([i \in DOMAIN result |-> SemanticKey(result[i])])
        /\ \A i \in DOMAIN result : SemanticKey(result[i]) \in keys
        /\ \A v \in keys :
             /\ IsPrefix(SemanticGroup(result, v), SemanticGroup(candidates, v))
             /\ (n > 0 /\ v > SemanticKey(result[n]))
                  => SemanticGroup(result, v) = SemanticGroup(candidates, v)

\* 'semantic' returned an entry ahead of one of higher aggregate, and
\* returned two entries that differ in typeRelevance only
C10_Witness ==
  /\ pc = "selected" /\ strategy = "semantic"
  /\ \E i \in DOMAIN result, j \in DOMAIN result :
       i < j /\ result[i].score < result[j].score
  /\ \E i \in DOMAIN result, j \in DOMAIN result :
       /\ i < j
       /\ result[i].components.typeRelevance # result[j].components.typeRelevance
       /\ result[i].components.keywordMatch = result[j].components.keywordMatch
       /\ result[i].components.domainRelevance = result[j].components.domainRelevance
       /\ result[i].components.actionMatch = result[j].components.actionMatch

\* the weight of a domain as configured weights merged over the built-in
\* priors give it: the configured weight when there is one, else the prior,
\* else 0.5
WeightExplicitFirst(params, domain) ==
  LET configured == params.domainWeights
  IN  IF configured # Undefined /\ domain \in DOMAIN configured[1]
      THEN configured[1][domain]
      ELSE IF domain \in DOMAIN defaultDomainWeights
           THEN defaultDomainWeights[domain]
           ELSE Tenths(5)

\* C11: the weight domainRelevance uses for a domain is the configured weight
\* w in [0, 1] whenever one is configured, whatever the built-in prior, and
\* the fallback 0.5 is used only for a domain absent from the configuration
\* and from the built-in table
C11_ConfiguredWeightsWin ==
  pc = "scored" =>
    \A k \in DOMAIN argTools :
      LET d == InputScore(k).components.domainRelevance
          domains == argIntent.domains
          M == MatchingDomains[argTools[k].tool, argIntent]
          total[j \in 0..Len(domains)] ==
            IF j = 0 THEN 0
            ELSE total[j - 1]
                   + (IF j \in M THEN WeightExplicitFirst(argParams, domains[j]) ELSE 0)
      IN  M # {} => d * Cardinality(M) = total[Len(domains)]

\* the entries of s whose aggregate is v, in the order of s
AggregateGroup(s, v) == SelectSeq(s, LAMBDA e : e.score = v)

\* the ToolScores of the tools passed to the last scoreTools call, in input order
InputScores == Tuple([k \in DOMAIN argTools |-> InputScore(k)])

\* C12: ordering by aggregate is stable: in the output of scoreTools and of
\* selectTools with strategy 'priority', entries of equal aggregate appear in
\* the same relative order as in the input
C12_TiesKeepInputOrder ==
  /\ pc = "scored" =>
       \A i \in DOMAIN scoredTools :
         LET v == scoredTools[i].score
         IN  AggregateGroup(scoredTools, v) = AggregateGroup(InputScores, v)
  /\ (pc = "selected" /\ strategy = "priority") =>
       \A i \in DOMAIN result :
         LET v == result[i].score
         IN  IsPrefix(AggregateGroup(result, v), AggregateGroup(candidates, v))

\* scoreTools returned two different tools of equal aggregate, and 'priority'
\* was then given them in the other order and returned them in that order
C12_Witness ==
  /\ pc = "selected" /\ strategy = "priority"
  /\ \E i \in DOMAIN scoredTools, j \in DOMAIN scoredTools :
       /\ i < j
       /\ scoredTools[i].score = scoredTools[j].score
       /\ scoredTools[i].tool > scoredTools[j].tool
       /\ \E p \in DOMAIN result, q \in DOMAIN result :
            p < q /\ result[p] = scoredTools[j] /\ result[q] = scoredTools[i]

\* C13: the service keeps no state between calls: the reference tables are
\* never modified, each call returns what the same call returns on a fresh
\* instance, and the hybrid strategy's per-source and per-category counters
\* start empty on every call
C13_NoStateBetweenCalls ==
  /\ this = ReferenceTables
  /\ pc = "scored" =>
       scoredTools = scoreTools(argTools, argIntent, argPrompt, argParams)
  /\ (pc = "hybrid" /\ cursor = 1) =>
       (selected = << >> /\ serverCounts = << >> /\ categoryCounts = << >>)
  /\ pc = "selected" => result = selectTools(candidates, maxTools, strategy)

\* a hybrid call is under way on an instance whose call before returned
\* entries, and it has counted an entry of its own
C13_Witness ==
  /\ pc = "hybrid"
  /\ result # << >>
  /\ cursor > 1
  /\ serverCounts # << >>
  /\ Len(selected) < Len(result)

\* C14: scoreTools and selectTools, with every strategy and with the fallback,
\* leave their inputs unchanged: across each step of a call the caller's tool
\* list and the other arguments of scoreTools, and the caller's scored list
\* and its entries, are what they were
C14_InputsUnchanged ==
  [][ /\ (pc = "ready" /\ pc' = "scored") =>
           /\ argTools' = argTools
           /\ argIntent' = argIntent
           /\ argPrompt' = argPrompt
           /\ argParams' = argParams
      /\ (pc \in {"chosen", "selected", "hybrid"} /\ pc' \in {"selected", "hybrid"}) =>
           /\ candidates' = candidates
           /\ scoredTools' = scoredTools
           /\ maxTools' = maxTools ]_vars

\* 'priority' returned its whole input in another order than the caller's
\* list, which the caller still holds in its own order
C14_Witness ==
  /\ pc = "selected" /\ strategy = "priority"
  /\ Len(result) = Len(candidates)
  /\ result # candidates
  /\ candidates # scoredTools

\* C15: whenever a token is configured on the server, every upstream CircleCI
\* request carries the server's token, whatever token the client sends
C15_UpstreamCarriesServerToken ==
  ~Falsy(serverTokenOf(env)) =>
    \A i \in DOMAIN requests :
      requests[i].upstream # Undefined
        => requests[i].upstream[1].CircleToken = serverTokenOf(env)[1]

\* the lower-cased name, description and serialized schema of each tool
\* object, joined by blanks
SearchText ==
  [t \in ToolIds |->
     toLowerCase(join(<< ToolObjects[t].name, OrEmptyString(ToolObjects[t].description),
                         JSONstringify(ToolObjects[t].inputSchema) >>, <<" ">>))] @@ << >>

\* the positions of the intent's keywords that the search text of a tool
\* contains verbatim
DirectKeywords ==
  [t \in ToolIds, i \in Intents |->
     {k \in DOMAIN i.keywords : includes(SearchText[t], toLowerCase(i.keywords[k]))}] @@ << >>

\* the positions of the other keywords whose first max(4, length - 2)
\* characters the search text contains
FuzzyKeywords ==
  [t \in ToolIds, i \in Intents |->
     {k \in (DOMAIN i.keywords) \ DirectKeywords[t, i] :
        LET kw == toLowerCase(i.keywords[k])
            n == IF Len(kw) - 2 > 4 THEN Len(kw) - 2 ELSE 4
        IN  includes(SearchText[t], SubSeq(kw, 1, IF n < Len(kw) THEN n ELSE Len(kw)))}] @@ << >>

\* the prompts that contain the name of each tool object, case ignored
NamedIn ==
  [t \in ToolIds |->
     {p \in Prompts : includes(toLowerCase(p), toLowerCase(ToolObjects[t].name))}] @@ << >>

\* C16: for n > 0 keywords, keywordMatch = min((1.0*D + 0.7*F + B) / n, 1.0):
\* D keywords are contained verbatim in the tool's text, F of the others by
\* their prefix of max(4, length - 2) characters, and B is 1.0 if the prompt
\* contains the tool's name and 0 otherwise
C16_KeywordMatchFormula ==
  (pc = "scored" /\ argIntent.keywords # << >>) =>
    \A k \in DOMAIN argTools :
      LET t == argTools[k].tool
          n == Len(argIntent.keywords)
          D == Cardinality(DirectKeywords[t, argIntent])
          F == Cardinality(FuzzyKeywords[t, argIntent])
          B == IF argPrompt \in NamedIn[t] THEN 10 ELSE 0
          tenths == 10 * D + 7 * F + B
          keywordMatch == InputScore(k).components.keywordMatch
      IN  IF tenths >= 10 * n THEN keywordMatch = One
          ELSE 10 * n * keywordMatch = tenths * One

\* tools were scored of which one has a fuzzy match and the name bonus and
\* stays below 1.0, and another one has a verbatim match
C16_Witness ==
  /\ pc = "scored"
  /\ \E k \in DOMAIN argTools :
       /\ FuzzyKeywords[argTools[k].tool, argIntent] # {}
       /\ argPrompt \in NamedIn[argTools[k].tool]
       /\ InputScore(k).components.keywordMatch < One
  /\ \E k \in DOMAIN argTools :
       /\ DirectKeywords[argTools[k].tool, argIntent] # {}
       /\ InputScore(k).components.keywordMatch < One

\* the intent types of the pool
PoolTypes == {i.type : i \in Intents}

\* for each tool object and intent type of the pool, the expected verbs of
\* the type that occur in the tool's lower-cased name, and those that occur
\* in its lower-cased description
VerbsInName ==
  [t \in ToolIds, ty \in PoolTypes |->
     IF ty \notin IntentTypes THEN {}
     ELSE {v \in DOMAIN intentTypeToActions[ty] :
             includes(toLowerCase(ToolObjects[t].name), intentTypeToActions[ty][v])}] @@ << >>

VerbsInDescription ==
  [t \in ToolIds, ty \in PoolTypes |->
     IF ty \notin IntentTypes THEN {}
     ELSE {v \in DOMAIN intentTypeToActions[ty] :
             includes(toLowerCase(OrEmptyString(ToolObjects[t].description)),
                      intentTypeToActions[ty][v])}] @@ << >>

\* C17: typeRelevance is 1.0 when the tool's lower-cased name or description
\* contains an expected verb of the intent's type, 0.3 when the type is one
\* of the six recognised types and no expected verb occurs, and 0.5 exactly
\* when the type has no entry in the intent-type table; nothing else
C17_TypeRelevanceValues ==
  pc = "scored" =>
    \A k \in DOMAIN argTools :
      LET t == argTools[k].tool
          ty == argIntent.type
          hit == VerbsInName[t, ty] # {} \/ VerbsInDescription[t, ty] # {}
          typeRelevance == InputScore(k).components.typeRelevance
      IN  /\ typeRelevance \in {One, Tenths(3), Tenths(5)}
          /\ typeRelevance = Tenths(5) <=> ty \notin IntentTypes
          /\ (ty \in IntentTypes /\ hit) => typeRelevance = One
          /\ (ty \in IntentTypes /\ ~hit) => typeRelevance = Tenths(3)

\* under a recognised type one tool was scored 1.0 for a verb in its
\* description only, and another one 0.3
C17_Witness ==
  /\ pc = "scored"
  /\ argIntent.type \in IntentTypes
  /\ \E k \in DOMAIN argTools :
       /\ VerbsInName[argTools[k].tool, argIntent.type] = {}
       /\ VerbsInDescription[argTools[k].tool, argIntent.type] # {}
       /\ InputScore(k).components.typeRelevance = One
  /\ \E k \in DOMAIN argTools : InputScore(k).components.typeRelevance = Tenths(3)

\* the verbs of the action-category table
PatternVerbs == {allPatternActions[i] : i \in DOMAIN allPatternActions}

\* those of them that occur in the lower-cased name of each tool object
PatternVerbsInName ==
  [t \in ToolIds |->
     {v \in PatternVerbs : includes(toLowerCase(ToolObjects[t].name), v)}] @@ << >>

\* those of them that occur in each lower-cased prompt
PatternVerbsInPrompt ==
  [p \in Prompts |-> {v \in PatternVerbs : includes(toLowerCase(p), v)}] @@ << >>

\* C18: actionMatch is the maximum over both passes: 1.0 if some
\* action-category verb occurs in the tool name and in the prompt; else 0.8 if
\* some expected verb of the intent's type occurs in the tool name; else 0.6
\* if some action-category verb occurs in the tool name; else 0
C18_ActionMatchIsMaximum ==
  pc = "scored" =>
    \A k \in DOMAIN argTools :
      LET t == argTools[k].tool
          inBoth == PatternVerbsInName[t] \cap PatternVerbsInPrompt[argPrompt]
          expected == VerbsInName[t, argIntent.type]
          actionMatch == InputScore(k).components.actionMatch
      IN  actionMatch =
            IF inBoth # {} THEN One
            ELSE IF expected # {} THEN Tenths(8)
            ELSE IF PatternVerbsInName[t] # {} THEN Tenths(6)
            ELSE 0

\* a tool was scored whose name holds an action-category verb that the
\* prompt lacks and an expected verb of the type: the second pass raised 0.6
\* to 0.8
C18_Witness ==
  /\ pc = "scored"
  /\ \E k \in DOMAIN argTools :
       LET t == argTools[k].tool
       IN  /\ PatternVerbsInName[t] # {}
           /\ PatternVerbsInName[t] \cap PatternVerbsInPrompt[argPrompt] = {}
           /\ VerbsInName[t, argIntent.type] # {}
           /\ InputScore(k).components.actionMatch = Tenths(8)

\* the clause each component earns, in the order of their declaration
ClauseOf ==
  << <<"keywordMatch", "Strong keyword match">>,
     <<"domainRelevance", "Highly relevant to domains">>,
     <<"typeRelevance", "Well-suited for tasks">>,
     <<"actionMatch", "Action matches user intent">> >>

\* C19: the reasoning holds exactly one clause for each component strictly
\* greater than 0.7 (none for a component equal to 0.7), in the order
\* keyword, domain, type, action; it is the single clause 'General utility
\* tool' if and only if no component exceeds 0.7, and it is never empty
C19_ReasoningClauses ==
  pc = "scored" =>
    \A k \in DOMAIN argTools :
      LET e == InputScore(k)
          earned == SelectSeq(ClauseOf, LAMBDA c : 10 * e.components[c[1]] > 7 * One)
          clauses == [i \in DOMAIN e.reasoning |-> e.reasoning[i][1]]
      IN  /\ e.reasoning # << >>
          /\ earned # << >> => clauses = [i \in DOMAIN earned |-> earned[i][2]]
          /\ earned = << >> <=> clauses = << "General utility tool" >>

\* a tool was scored with keywordMatch equal to 0.7 and another component
\* above it: its reasoning has clauses, none of them for the keywords
C19_Witness ==
  /\ pc = "scored"
  /\ \E k \in DOMAIN argTools :
       LET e == InputScore(k)
       IN  /\ 10 * e.components.keywordMatch = 7 * One
           /\ e.components.typeRelevance = One
           /\ Len(e.reasoning) >= 2
           /\ \A i \in DOMAIN e.reasoning : e.reasoning[i][1] # "Strong keyword match"

\* C20: in the hybrid pass the penalty of a candidate is
\* min(s*0.05, 0.2) + min(c*0.10, 0.3) for s and c already accepted items of
\* its source and of its category; it is 0 for the first accepted item,
\* non-decreasing in s and c and never above 0.5. Three candidates of one
\* source and category with aggregates 0.9, 0.85, 0.8 and maxTools 3 have the
\* adjusted scores 0.9, 0.7225 and 0.56 and are all accepted
C20_DiversityPenalty ==
  /\ (strategy = "hybrid" /\ pc \in {"hybrid", "selected"}) =>
       \A p \in DOMAIN trail :
         /\ 100 * trail[p].adjustedScore
              = candidates[trail[p].index].score * (100 - PenaltyAtStep(p))
         /\ PenaltyAtStep(p) <= 50
         /\ (\A q \in 1..(p - 1) : ~trail[q].accepted) => PenaltyAtStep(p) = 0
         /\ \A q \in 1..(p - 1) :
              (/\ candidates[trail[q].index].serverName = candidates[trail[p].index].serverName
               /\ CategoryTable[candidates[trail[q].index].tool]
                    = CategoryTable[candidates[trail[p].index].tool])
                => PenaltyAtStep(q) <= PenaltyAtStep(p)
  /\ (pc = "selected" /\ strategy = "hybrid" /\ candidates = DiversityExample
        /\ maxTools = 3) =>
       /\ [p \in DOMAIN trail |-> 10000 * trail[p].adjustedScore]
            = << 9000 * One, 7225 * One, 5600 * One >>
       /\ result = candidates

\* 'hybrid' returned for the three candidates of aggregates 0.9, 0.85, 0.8
\* and maxTools 3
C20_Witness ==
  /\ pc = "selected" /\ strategy = "hybrid"
  /\ candidates = DiversityExample
  /\ [i \in DOMAIN candidates |-> 100 * candidates[i].score] = << 90 * One, 85 * One, 80 * One >>
  /\ maxTools = 3
  /\ Len(result) = 3

\* 'hybrid' examined a candidate with five accepted items of its source and
\* category before it: both terms of the penalty are at their caps
C20_WitnessCaps ==
  /\ pc = "selected" /\ strategy = "hybrid"
  /\ \E p \in DOMAIN trail : PenaltyAtStep(p) = 50 /\ p = 6

\* the counts of map with the count of key raised by one
CountsPlusOne(map, key) ==
  [k \in (DOMAIN map) \cup {key} |->
     IF k = key THEN countOf(map, k) + 1 ELSE map[k]]

\* C21: in the hybrid pass a rejection leaves the result list and the source
\* and category counters unchanged; an acceptance appends the candidate and
\* raises the counter of its source and the counter of its category by exactly
\* one each; no candidate is examined twice; and once maxTools items are
\* accepted no further candidate is examined
C21_RejectionChangesNothing ==
  [][ /\ (pc = "hybrid" /\ trail' # trail) =>
           LET e == trail'[Len(trail')]
               toolScore == candidates[e.index]
           IN  /\ pc' = "hybrid"
               /\ Len(trail') = Len(trail) + 1
               /\ \A p \in DOMAIN trail : trail'[p] = trail[p] /\ trail[p].index < e.index
               /\ Len(selected) < maxTools
               /\ ~e.accepted =>
                    /\ selected' = selected
                    /\ serverCounts' = serverCounts
                    /\ categoryCounts' = categoryCounts
               /\ e.accepted =>
                    /\ selected' = Append(selected, toolScore)
                    /\ serverCounts' = CountsPlusOne(serverCounts, toolScore.serverName)
                    /\ categoryCounts' =
                         CountsPlusOne(categoryCounts, CategoryTable[toolScore.tool])
      /\ (pc = "hybrid" /\ trail' = trail) =>
           /\ selected' = selected
           /\ serverCounts' = serverCounts
           /\ categoryCounts' = categoryCounts
      /\ (pc = "hybrid" /\ Len(selected) >= maxTools) =>
           /\ trail' = trail
           /\ pc' = "selected" => result' = selected ]_vars

\* the hybrid pass rejected a candidate, accepted a later one and then
\* reached maxTools with a candidate left unexamined
C21_Witness ==
  /\ pc = "hybrid"
  /\ \E p \in DOMAIN trail, q \in DOMAIN trail :
       p < q /\ ~trail[p].accepted /\ trail[q].accepted
  /\ Len(selected) >= maxTools
  /\ cursor <= Len(candidates)

\* the iterations of selectByHybrid's loop that pushed their element
AcceptedAt == {p \in DOMAIN trail : trail[p].accepted}

\* for each tool object, the positions in the action-category table of the
\* categories that have a verb occurring in the lower-cased name
CategoriesInName ==
  [t \in ToolIds |->
     {k \in DOMAIN actionPatterns :
        \E i \in DOMAIN actionPatterns[k][2] :
          includes(toLowerCase(ToolObjects[t].name), actionPatterns[k][2][i])}] @@ << >>

\* the category the first of these positions names, 'general' without one
EarliestCategory ==
  [t \in ToolIds |->
     IF CategoriesInName[t] = {} THEN "general"
     ELSE actionPatterns[CHOOSE k \in CategoriesInName[t] :
                           \A j \in CategoriesInName[t] : k <= j][1]] @@ << >>

\* C22: the inferred category of a tool is the first category, in the order
\* file_operations, compilation, deployment, debugging, analysis,
\* configuration, tutorial, with a verb occurring in the lower-cased name,
\* and 'general' exactly when no category has one: the categories the hybrid
\* pass has counted are these categories of the accepted candidates
C22_CategoryIsEarliestInTable ==
  /\ [k \in DOMAIN actionPatterns |-> actionPatterns[k][1]]
       = << "file_operations", "compilation", "deployment", "debugging",
            "analysis", "configuration", "tutorial" >>
  /\ (strategy = "hybrid" /\ pc \in {"hybrid", "selected"}) =>
       /\ \A c \in DOMAIN categoryCounts :
            categoryCounts[c] =
              Cardinality({p \in AcceptedAt :
                             EarliestCategory[candidates[trail[p].index].tool] = c})
       /\ \A p \in AcceptedAt :
            LET t == candidates[trail[p].index].tool
            IN  /\ EarliestCategory[t] \in DOMAIN categoryCounts
                /\ EarliestCategory[t] = "general" <=> CategoriesInName[t] = {}

\* the hybrid pass accepted a tool whose name has verbs of two categories, a
\* tool whose name has no verb of any category and a tool of one category
C22_Witness ==
  /\ pc = "hybrid"
  /\ \E p \in AcceptedAt :
       Cardinality(CategoriesInName[candidates[trail[p].index].tool]) > 1
  /\ \E p \in AcceptedAt :
       CategoriesInName[candidates[trail[p].index].tool] = {}
  /\ DOMAIN categoryCounts = {"file_operations", "general", "compilation"}

\* C23: hybrid selection is idempotent: selectTools(hybrid, maxTools) applied
\* to a list that selectTools(hybrid, maxTools) returned returns that list
\* unchanged
C23_HybridIsIdempotent ==
  (pc = "selected" /\ strategy = "hybrid" /\ candidatesFrom = "hybrid") =>
    /\ result = candidates
    /\ \A p \in DOMAIN trail : trail[p].accepted

\* 'hybrid' returned for a list that an earlier 'hybrid' call returned after
\* rejecting an entry of the scored list; an entry of the list met a penalty
C23_Witness ==
  /\ pc = "selected" /\ strategy = "hybrid" /\ candidatesFrom = "hybrid"
  /\ Len(candidates) >= 2
  /\ Len(candidates) < maxTools
  /\ Len(candidates) < Len(scoredTools)
  /\ \E p \in DOMAIN trail : PenaltyAtStep(p) > 0

\* C24: when every entry of the input has an aggregate strictly greater than
\* 0.30, the hybrid pass rejects nothing and returns exactly the first
\* min(maxTools, length) entries of its input, which is what the
\* unrecognised-strategy truncation returns, whatever the sources and
\* categories of the entries
C24_HybridIsTruncationAboveThreshold ==
  (/\ strategy = "hybrid" /\ pc \in {"hybrid", "selected"}
   /\ \A i \in DOMAIN candidates : 10 * candidates[i].score > 3 * One) =>
    /\ \A p \in DOMAIN trail : trail[p].accepted
    /\ pc = "selected" =>
         /\ result = SubSeq(candidates, 1, MathMin(maxTools, Len(candidates)))
         /\ result = selectFallback(candidates, maxTools)

\* 'hybrid' returned six entries of aggregate 0.305, the last ones examined
\* under the penalty 0.5
C24_Witness ==
  /\ pc = "selected" /\ strategy = "hybrid"
  /\ Len(result) = 6
  /\ \A i \in DOMAIN candidates : 1000 * candidates[i].score = 305 * One
  /\ \E p \in DOMAIN trail :
       PenaltyAtStep(p) = 50 /\ 10000 * trail[p].adjustedScore = 1525 * One

\* 'hybrid' returned the first maxTools of more entries, of two sources and
\* two categories, all of aggregate above 0.30
C24_WitnessMixed ==
  /\ pc = "selected" /\ strategy = "hybrid"
  /\ \A i \in DOMAIN candidates : 10 * candidates[i].score > 3 * One
  /\ Cardinality({candidates[i].serverName : i \in DOMAIN candidates}) > 1
  /\ Cardinality(DOMAIN categoryCounts) > 1
  /\ maxTools < Len(candidates)

\* C25: scoreTools under the default threshold followed by
\* selectTools(hybrid, maxTools >= 1) on the scored list: a non-empty scored
\* list yields a non-empty selection whose first element is the top-ranked
\* scored tool, which was examined with penalty 0 and has an aggregate of at
\* least 0.3
C25_PipelineKeepsTopTool ==
  (/\ pc = "selected" /\ strategy = "hybrid"
   /\ candidatesFrom = "scoreTools" /\ candidates = scoredTools
   /\ argParams.toolRelevanceThreshold = Undefined
   /\ maxTools >= 1
   /\ scoredTools # << >>) =>
    /\ result # << >>
    /\ result[1] = scoredTools[1]
    /\ \A i \in DOMAIN scoredTools : result[1].score >= scoredTools[i].score
    /\ 10 * result[1].score >= 3 * One
    /\ trail[1].accepted /\ trail[1].adjustedScore = result[1].score

\* the pipeline ran on a scored list of several tools of different
\* aggregates, and the hybrid pass returned the top one first
C25_Witness ==
  /\ pc = "selected" /\ strategy = "hybrid"
  /\ candidatesFrom = "scoreTools" /\ candidates = scoredTools
  /\ argParams.toolRelevanceThreshold = Undefined
  /\ maxTools >= 1
  /\ Len(scoredTools) >= 2
  /\ scoredTools[1].score > scoredTools[2].score
  /\ result[1] = scoredTools[1]

\* C26: every POST /api/trigger request is answered exactly once: a request
\* without a test name is answered 400 and spawns no child, and for a request
\* with a test name the handlers send one response whatever child events
\* occur: only 'close', only 'error', or 'error' and then 'close' after a
\* failed spawn
C26_TriggerAnsweredOnce ==
  \A i \in DOMAIN triggers :
    /\ Len(triggers[i].calls) <= 1
    /\ Falsy(triggers[i].test) =>
         triggers[i].calls = << 400 >> /\ triggers[i].child = "none"
    /\ triggers[i].child \in {"errored", "closed"} => Len(triggers[i].calls) = 1
    /\ triggers[i].calls = << >> => running

\* the statement restricted to requests whose spawn did not fail
C26_AnsweredOnceWithoutSpawnFailure ==
  (\A j \in DOMAIN triggers : triggers[j].child \notin {"failed", "errored"}
      /\ ~(triggers[j].child = "closed" /\ Len(triggers[j].calls) > 1)) =>
    C26_TriggerAnsweredOnce

=============================================================================
